---- MODULE Spec2Model ----
(***************************************************************************)
(* Deployment orchestrator (startDeployment, runCommand), its progress     *)
(* broadcast channel (clients, sendStatusUpdate, GET /status/:id) and its  *)
(* entry point (POST /deploy).                                             *)
(*                                                                         *)
(* JavaScript strings are sequences of chunks (Str); a template literal is *)
(* the concatenation of its parts.  Input strings are given character by   *)
(* character, fixed texts as one chunk.  One action is one run-to-         *)
(* completion callback of the event loop: the code from one suspension     *)
(* point (await, event) to the next.                                       *)
(***************************************************************************)
EXTENDS Integers, Sequences, FiniteSets, TLC

\* ------------------------------------------------------------- bounds
\* POST /deploy requests handled in one behaviour of Spec, SpecChannel,
\* SpecOutput and SpecReturning (each mints at most one deployment identifier)
MaxRequests == 1
\* POST /deploy requests handled in one behaviour of SpecConcurrent: the
\* runs that can be in progress at the same time
MaxRuns == 2
\* SSE transports (GET /status responses) in one behaviour of SpecChannel
NumTransports == 2
\* SSE transports in one behaviour of Spec
NumViewers == 1
\* stdout/stderr data events produced by the child processes of one run
MaxChunks == 2

\* ------------------------------------------------------------- strings
Upper == <<"A", "B", "C", "D", "E", "F", "G", "H", "I", "J", "K", "L", "M",
           "N", "O", "P", "Q", "R", "S", "T", "U", "V", "W", "X", "Y", "Z">>
Lower == <<"a", "b", "c", "d", "e", "f", "g", "h", "i", "j", "k", "l", "m",
           "n", "o", "p", "q", "r", "s", "t", "u", "v", "w", "x", "y", "z">>
Digit == <<"0", "1", "2", "3", "4", "5", "6", "7", "8", "9">>

Range(s) == {s[i] : i \in DOMAIN s}

\* String.prototype.toLowerCase, one character
ToLowerChar(c) ==
  IF \E i \in DOMAIN Upper : Upper[i] = c
  THEN Lower[CHOOSE i \in DOMAIN Upper : Upper[i] = c]
  ELSE c

\* String.prototype.toLowerCase: every character maps to one character, but
\* U+0130 (capital I with dot above), which maps to "i" followed by the
\* combining dot above U+0307; characters are named by their code point when
\* they are not ASCII
ToLowerUnits(c) == IF c = "U+0130" THEN <<"i", "U+0307">> ELSE <<ToLowerChar(c)>>
RECURSIVE ToLowerCase(_)
ToLowerCase(s) ==
  IF s = <<>> THEN <<>> ELSE ToLowerUnits(Head(s)) \o ToLowerCase(Tail(s))

\* the character class [a-z0-9-]
NameChars == Range(Lower) \cup Range(Digit) \cup {"-"}

\* String.prototype.substring(0, n)
Substring0(s, n) == SubSeq(s, 1, IF Len(s) < n THEN Len(s) ELSE n)

\* Number.prototype.toString for a natural number
RECURSIVE NumToString(_)
NumToString(n) ==
  IF n < 10 THEN <<Digit[n + 1]>>
  ELSE NumToString(n \div 10) \o <<Digit[(n % 10) + 1]>>

\* String.prototype.trim: whitespace is removed at both ends
WhiteSpace == {" ", "\t", "\n"}
RECURSIVE TrimLeft(_)
TrimLeft(s) ==
  IF s # <<>> /\ Head(s) \in WhiteSpace THEN TrimLeft(Tail(s)) ELSE s
RECURSIVE TrimRight(_)
TrimRight(s) ==
  IF s # <<>> /\ s[Len(s)] \in WhiteSpace
  THEN TrimRight(SubSeq(s, 1, Len(s) - 1)) ELSE s
Trim(s) == TrimRight(TrimLeft(s))

\* Array.prototype.join(" ")
RECURSIVE JoinSpace(_)
JoinSpace(parts) ==
  IF parts = <<>> THEN <<>>
  ELSE IF Len(parts) = 1 THEN parts[1]
  ELSE parts[1] \o <<" ">> \o JoinSpace(Tail(parts))

\* JavaScript values of a request field: absent, a string, or a number
Undefined == [t |-> "undefined", s |-> <<>>]
JsStr(s) == [t |-> "string", s |-> s]
JsNum == [t |-> "number", s |-> <<>>]
\* ToBoolean of a request field (a non-zero number is truthy)
Truthy(v) == v.t = "number" \/ (v.t = "string" /\ v.s # <<>>)

\* ------------------------------------------------------------- name derivation
MaxOrgLen == 40
SuffixBase == 1000
SuffixSpan == 9000
\* Math.random() as a fraction k / RandomDenominator in [0, 1)
RandomDenominator == 10000
RandomSamples == {0, 9999}

\* Math.floor(1000 + Math.random() * 9000)
RandomSuffix(k) == SuffixBase + ((k * SuffixSpan) \div RandomDenominator)

\* a sanitization that does not truncate
SanitizedOrgNameUntruncated(orgName) ==
  LET lowered == ToLowerCase(orgName)
  IN [i \in DOMAIN lowered |-> IF lowered[i] \in NameChars THEN lowered[i] ELSE "-"]

\* orgName.toLowerCase().replace(/[^a-z0-9-]/g, "-").substring(0, 40)
SanitizedOrgName(orgName) ==
  LET lowered == ToLowerCase(orgName)
      replaced == [i \in DOMAIN lowered |->
                     IF lowered[i] \in NameChars THEN lowered[i] ELSE "-"]
  IN Substring0(replaced, MaxOrgLen)

\* `${sanitizedOrgName}-${randomSuffix}`
UniqueAppName(orgName, k) ==
  SanitizedOrgName(orgName) \o <<"-">> \o NumToString(RandomSuffix(k))

\* ------------------------------------------------------------- progress events
\* the JSON object { message, isError, isComplete, data }; data is null
\* (no entries) or an object, given as its <<key, value>> entries
NoData == <<>>
Event(message, isError, isComplete, data) ==
  [message |-> message, isError |-> isError, isComplete |-> isComplete,
   data |-> data]
\* sendStatusUpdate(message) with the default arguments
Info(message) == Event(message, FALSE, FALSE, NoData)
\* sendStatusUpdate(message, true)
Err(message) == Event(message, TRUE, FALSE, NoData)

\* ------------------------------------------------------------- broadcast channel
Ids == 1 .. MaxRuns
Transports == 1 .. NumTransports
Viewers == 1 .. NumViewers
NoClient == 0

\* The channel: the registry `clients`, and per transport the connection
\* state and everything written to it.
\*   conn[t].state: "idle" (no request yet), "open" (headers written),
\*   "ended" (res.end() by the server, close event still to come), "closed"
\*   (the close handler has run).

\* a sendStatusUpdate that ends the response on completion but keeps it
\* registered
SendStatusUpdateKeepsClient(ch, id, ev) ==
  IF ch.clients[id] # NoClient
  THEN LET t == ch.clients[id]
           written == [ch EXCEPT !.received[t] = Append(@, ev)]
       IN IF ev.isComplete
          THEN [written EXCEPT !.conn[t].state = "ended"]
          ELSE written
  ELSE ch

\* sendStatusUpdate(deploymentId, message, isError, isComplete, data)
SendStatusUpdate(ch, id, ev) ==
  IF ch.clients[id] # NoClient
  THEN LET t == ch.clients[id]
           written == [ch EXCEPT !.received[t] = Append(@, ev)]
       IN IF ev.isComplete
          THEN [written EXCEPT !.conn[t].state = "ended",
                               !.clients[id] = NoClient]
          ELSE written
  ELSE ch

\* a callback whose events all go out under the first identifier
SendAllUnderFirstId(ch, id, evs) ==
  IF evs = <<>> THEN ch
  ELSE LET RECURSIVE Go(_, _)
           Go(c, es) == IF es = <<>> THEN c
                        ELSE Go(SendStatusUpdate(c, 1, Head(es)), Tail(es))
       IN Go(ch, evs)

\* the events of one callback, sent one after the other
RECURSIVE SendAll(_, _, _)
SendAll(ch, id, evs) ==
  IF evs = <<>> THEN ch
  ELSE SendAll(SendStatusUpdate(ch, id, Head(evs)), id, Tail(evs))

\* ------------------------------------------------------------- orchestrator
\* The state of one call of startDeployment: its locals, its position (pc:
\* the await it is suspended at), and what it has done so far (published:
\* every sendStatusUpdate call; calls: every external call, in order;
\* returned: how many of them have settled; failedAt: where the run was when
\* the catch block was entered; unlinkOutcome: how the final delete ended;
\* settled: how each runCommand promise settled, in order; output: what the
\* child processes wrote, as <<stream, data>> per data event).
T(s) == <<s>>
NoCmd == [step |-> "none", commandString |-> <<>>]

\* crypto.randomUUID(): the n-th identifier minted
DeploymentId(n) == <<"uuid-">> \o NumToString(n)

Unused ==
  [pc |-> "unused", formData |-> [orgName |-> Undefined, geminiKey |-> Undefined],
   deploymentId |-> <<>>, uniqueAppName |-> <<>>, tempFlyTomlPath |-> <<>>,
   newUserId |-> <<>>, newUserToken |-> <<>>, secretIdx |-> 0, cmd |-> NoCmd,
   stdoutData |-> <<>>, stderrData |-> <<>>, lateClose |-> {},
   settled |-> <<>>, output |-> <<>>,
   published |-> <<>>, calls |-> <<>>, returned |-> 0, chunks |-> 0,
   atResponse |-> [pc |-> "unused", returned |-> 0],
   failedAt |-> [pc |-> "none", step |-> "none"], unlinkOutcome |-> "none"]

\* one sendStatusUpdate call of the run
Pub(r, ev) == [r EXCEPT !.published = Append(@, ev)]
\* one external call of the run (spawn, fetch, fs)
ExtCall(r, kind, what, args) ==
  [r EXCEPT !.calls = Append(@, [kind |-> kind, what |-> what, args |-> args])]

Flyctl == T("flyctl")
\* `${command} ${args.join(" ")}`
CommandString(command, args) == command \o T(" ") \o JoinSpace(args)

\* runCommand up to the spawn: announces the command and launches the child
RunCommand(r, step, args) ==
  LET cs == CommandString(Flyctl, args)
      r1 == Pub(r, Info(T("Executing: ") \o cs \o T("...")))
      r2 == ExtCall(r1, "spawn", Flyctl, args)
  IN [r2 EXCEPT !.pc = "await_cmd",
                !.cmd = [step |-> step, commandString |-> cs],
                !.stdoutData = <<>>, !.stderrData = <<>>]

\* a finally block that forgets the temporary file
FinallyNoUnlink(r) == [r EXCEPT !.pc = "done"]

\* the finally block
Finally(r) ==
  IF r.tempFlyTomlPath # <<>>
  THEN [ExtCall(r, "unlink", r.tempFlyTomlPath, <<>>) EXCEPT !.pc = "await_unlink"]
  ELSE [r EXCEPT !.pc = "done"]

\* a cleanup guard that tests the other bookkeeping local, tempFlyTomlPath
CleanupGuardOnTempPath(r) == r.tempFlyTomlPath # <<>>

\* if (uniqueAppName)
CleanupGuard(r) == r.uniqueAppName # <<>>

\* a destroy command that names the logging context instead of the app
DestroyArgsByDeploymentId(r) ==
  <<T("apps"), T("destroy"), r.deploymentId, T("--yes")>>

DestroyArgs(r) == <<T("apps"), T("destroy"), r.uniqueAppName, T("--yes")>>

\* the catch block, up to its first suspension point
Catch(r, message) ==
  LET r0 == [r EXCEPT !.failedAt = [pc |-> r.pc, step |-> r.cmd.step]]
      r1 == Pub(r0, Event(T("Deployment failed: ") \o message, TRUE, TRUE, NoData))
  IN IF CleanupGuard(r1)
     THEN RunCommand(
            Pub(r1, Info(T("Attempting to clean up failed deployment for app ")
                         \o r1.uniqueAppName \o T("..."))),
            "destroy", DestroyArgs(r1))
     ELSE Finally(r1)

HumanitecOrgId == T("canyon-demo")
ServiceUserName(r) == T("canyon-chat-fly-") \o r.uniqueAppName
TokenId(r) == T("canyon-chat-fly-token-") \o r.uniqueAppName
FlyRegion == T("ams")
ImageName == T("dominicwhitehumanitec/canyonchat:latest")
FlyOrg == T("personal")
BaseDomain == T(".canyon-beta.com")

\* startDeployment from its call to its first suspension point
StartDeployment(formData, n, k, hasAdminToken) ==
  LET r0 == [Unused EXCEPT !.formData = formData, !.deploymentId = DeploymentId(n)]
      r1 == Pub(r0, Info(T("Generating unique application name...")))
  IN IF formData.orgName.t # "string"
     THEN Catch(r1, T("orgName.toLowerCase is not a function"))
     ELSE
       LET r2 == [r1 EXCEPT !.uniqueAppName = UniqueAppName(formData.orgName.s, k)]
           r3 == Pub(r2, Info(T("Generated Fly app name: ") \o r2.uniqueAppName))
           r4 == Pub(r3, Info(T("Setting up Humanitec service user and token...")))
       IN IF ~hasAdminToken
          THEN Catch(r4, T("Missing HUMANITEC_SERVICE_USER_API_TOKEN in environment variables."))
          ELSE
            LET r5 == Pub(r4, Info(T("Creating/finding Humanitec service user: ")
                                   \o ServiceUserName(r4) \o T("...")))
                r6 == ExtCall(r5, "fetch",
                              T("POST https://api.humanitec.io/orgs/") \o HumanitecOrgId
                                \o T("/users"),
                              <<ServiceUserName(r5), T("member"), T("service")>>)
            IN [r6 EXCEPT !.pc = "await_createUser"]

\* the token request for newUserId
TokenStep(r) ==
  LET r1 == Pub(r, Info(T("Generating API token for user ID: ") \o r.newUserId \o T("...")))
      r2 == ExtCall(r1, "fetch",
                    T("POST https://api.humanitec.io/users/") \o r.newUserId \o T("/tokens"),
                    <<TokenId(r), T("static")>>)
  IN [r2 EXCEPT !.pc = "await_createToken"]

UserSetupFailed(r, message) == Catch(r, T("Humanitec user setup failed: ") \o message)
TokenSetupFailed(r, message) == Catch(r, T("Humanitec token setup failed: ") \o message)

CreateUserOutcomes == {"created", "no_id", "conflict", "http_error", "rejected"}
\* a create-user step that takes the id of any OK response, missing or not
AfterCreateUserUnchecked(r0, outcome, userId) ==
  LET r == [r0 EXCEPT !.returned = @ + 1] IN
  IF outcome \in {"created", "no_id"}
  THEN TokenStep(Pub([r EXCEPT !.newUserId = userId],
                     Info(T("Successfully created Humanitec service user. ID: ")
                          \o userId)))
  ELSE UserSetupFailed(r, T("fetch failed"))

\* the continuation after the create-user fetch (and its body) settled
AfterCreateUser(r0, outcome, userId) ==
  LET r == [r0 EXCEPT !.returned = @ + 1] IN
  CASE outcome = "created" ->
         TokenStep(Pub([r EXCEPT !.newUserId = userId],
                       Info(T("Successfully created Humanitec service user. ID: ")
                            \o userId)))
    [] outcome = "conflict" ->
         LET r1 == Pub(r, Info(T("Service user '") \o ServiceUserName(r)
                               \o T("' already exists. Fetching ID...")))
             r2 == ExtCall(r1, "fetch",
                           T("GET https://api.humanitec.io/orgs/") \o HumanitecOrgId
                             \o T("/users?name=") \o ServiceUserName(r),
                           <<>>)
         IN [r2 EXCEPT !.pc = "await_lookup"]
    [] outcome = "no_id" ->
         UserSetupFailed(r, T("Failed to parse service user ID from Humanitec response."))
    [] outcome = "http_error" ->
         UserSetupFailed(r, T("Failed to create Humanitec service user. Status: 500, Body: "))
    [] OTHER -> UserSetupFailed(r, T("fetch failed"))

LookupOutcomes == {"found", "not_ok", "empty", "rejected"}
\* a lookup whose result is used even when the request failed
AfterLookupUnchecked(r0, outcome, userId) ==
  LET r == [r0 EXCEPT !.returned = @ + 1] IN
  TokenStep(Pub([r EXCEPT !.newUserId = userId],
                Info(T("Found existing service user ID: ") \o userId)))

\* the continuation after the lookup-by-name fetch settled
AfterLookup(r0, outcome, userId) ==
  LET r == [r0 EXCEPT !.returned = @ + 1] IN
  CASE outcome = "found" ->
         TokenStep(Pub([r EXCEPT !.newUserId = userId],
                       Info(T("Found existing service user ID: ") \o userId)))
    [] outcome = "not_ok" ->
         UserSetupFailed(r, T("Failed to find existing service user '")
                            \o ServiceUserName(r) \o T("'. Status: 500"))
    [] outcome = "empty" ->
         UserSetupFailed(r, T("Failed to find ID for existing service user '")
                            \o ServiceUserName(r) \o T("'."))
    [] OTHER -> UserSetupFailed(r, T("fetch failed"))

CreateArgs(r) == <<T("apps"), T("create"), r.uniqueAppName, T("--org"), FlyOrg>>

CreateTokenOutcomes == {"issued", "no_token", "conflict", "http_error", "rejected"}
\* a token step that takes a conflict for an issued credential and goes on
AfterCreateTokenConflictGoesOn(r0, outcome, token) ==
  LET r == [r0 EXCEPT !.returned = @ + 1] IN
  IF outcome \in {"issued", "conflict"}
  THEN LET r1 == Pub([r EXCEPT !.newUserToken = token],
                     Info(T("Successfully generated Humanitec API token.")))
           r2 == Pub(r1, Info(T("Token with ID '") \o TokenId(r)
                              \o T("' already exists for user '") \o r.newUserId))
       IN RunCommand(r2, "create", CreateArgs(r2))
  ELSE TokenSetupFailed(r, T("fetch failed"))

\* the continuation after the create-token fetch settled
AfterCreateToken(r0, outcome, token) ==
  LET r == [r0 EXCEPT !.returned = @ + 1] IN
  CASE outcome = "issued" ->
         LET r1 == Pub([r EXCEPT !.newUserToken = token],
                       Info(T("Successfully generated Humanitec API token.")))
             r2 == Pub(r1, Info(T("Humanitec setup complete.")))
             r3 == Pub(r2, Info(T("Creating Fly app '") \o r.uniqueAppName
                               \o T("' in region '") \o FlyRegion \o T("'...")))
         IN RunCommand(r3, "create", CreateArgs(r3))
    [] outcome = "no_token" ->
         TokenSetupFailed(r, T("Failed to parse generated token from Humanitec response."))
    [] outcome = "conflict" ->
         TokenSetupFailed(r, T("Token with ID '") \o TokenId(r)
           \o T("' already exists for user '") \o r.newUserId
           \o T("'. Cannot retrieve existing static token. Please delete it manually in Humanitec if you want to proceed."))
    [] outcome = "http_error" ->
         TokenSetupFailed(r, T("Failed to generate Humanitec API token. Status: 500, Body: "))
    [] OTHER -> TokenSetupFailed(r, T("fetch failed"))

\* Object.entries(secrets): the configuration keys and their values, in order
Secrets(r) ==
  << <<T("GOOGLE_API_KEY"), r.formData.geminiKey.s>>,
     <<T("HUMANITEC_TOKEN"), r.newUserToken>>,
     <<T("DEFAULT_MODEL"), T("gemini-2.5-pro-preview-03-25")>>,
     <<T("ENABLE_MCP"), T("true")>>,
     <<T("MINIO_ACCESS_KEY_ID"), T("KNI6gzCN3ueRujNrzQj5")>>,
     <<T("MINIO_BUCKET"), T("canyon-render-bucket")>>,
     <<T("MINIO_ENDPOINT"), T("https://bucket-production-670c.up.railway.app:443")>>,
     <<T("MINIO_SECRET_ACCESS_KEY"), T("MGtkqapxCcbYS532RQVDUA9rdhPU6Ie7NT0LKgdj")>>,
     <<T("MINIO_USE_SSL"), T("true")>> >>

SecretArgs(r, i) ==
  <<T("secrets"), T("set"), T("-a"), r.uniqueAppName,
    Secrets(r)[i][1] \o T("=") \o Secrets(r)[i][2]>>

\* a temporary path named after the application alone
TempFlyTomlPathOfName(r) ==
  T("/tmp") \o T("/") \o T("fly_") \o r.uniqueAppName \o T(".toml")

\* path.join(os.tmpdir(), `fly_${deploymentId}_${uniqueAppName}.toml`)
TempFlyTomlPath(r) ==
  T("/tmp") \o T("/") \o T("fly_") \o r.deploymentId \o T("_") \o r.uniqueAppName
    \o T(".toml")

\* the descriptor: from the end of the secrets loop to the writeFile call
WriteDescriptor(r) ==
  LET r1 == Pub(r, Info(T("All secrets processed.")))
      r2 == [r1 EXCEPT !.tempFlyTomlPath = TempFlyTomlPath(r1)]
      r3 == Pub(r2, Info(T("Writing temporary fly.toml to ") \o r2.tempFlyTomlPath
                        \o T("...")))
      r4 == ExtCall(r3, "writeFile", r3.tempFlyTomlPath,
                    <<r3.uniqueAppName, FlyRegion, ImageName>>)
  IN [r4 EXCEPT !.pc = "await_write"]

\* a secrets loop that stops after the request's own two secrets
SecretsFromOwnOnly(r, i) ==
  IF i > 2 THEN WriteDescriptor(r)
  ELSE RunCommand(Pub([r EXCEPT !.secretIdx = i],
                      Info(T("Setting secret ") \o Secrets(r)[i][1] \o T("..."))),
                  "secret", SecretArgs(r, i))

\* the secrets loop from entry i to its next suspension point
RECURSIVE SecretsFrom(_, _)
SecretsFrom(r, i) ==
  IF i > Len(Secrets(r)) THEN WriteDescriptor(r)
  ELSE IF Secrets(r)[i][2] = <<>>
  THEN SecretsFrom(Pub(r, Info(T("Skipping secret ") \o Secrets(r)[i][1]
                               \o T(" as value is empty."))), i + 1)
  ELSE RunCommand(Pub([r EXCEPT !.secretIdx = i],
                      Info(T("Setting secret ") \o Secrets(r)[i][1] \o T("..."))),
                  "secret", SecretArgs(r, i))

DeployArgs(r) ==
  <<T("deploy"), T("-a"), r.uniqueAppName, T("-c"), r.tempFlyTomlPath,
    T("--image"), ImageName, T("--ha=false"), T("--detach")>>

\* a URL built from the deployment identifier instead of the application name
AppUrlOfDeploymentId(r) == T("https://") \o r.deploymentId \o BaseDomain

\* `https://${uniqueAppName}.canyon-beta.com`
AppUrl(r) == T("https://") \o r.uniqueAppName \o BaseDomain

\* the final success event
SuccessEvent(r) ==
  Event(T("Deployment successful! App should be available shortly at: ") \o AppUrl(r),
        FALSE, TRUE, << <<T("appUrl"), AppUrl(r)>> >>)

\* the continuation after `await runCommand(...)` resolved
CmdSucceeded(r) ==
  CASE r.cmd.step = "create" ->
         LET r1 == Pub(r, Info(T("Fly app '") \o r.uniqueAppName \o T("' created.")))
             r2 == Pub(r1, Info(T("Setting secrets in Fly app (one by one)...")))
         IN SecretsFrom(r2, 1)
    [] r.cmd.step = "secret" ->
         SecretsFrom(Pub(r, Info(T("Secret ") \o Secrets(r)[r.secretIdx][1]
                                 \o T(" set."))),
                     r.secretIdx + 1)
    [] r.cmd.step = "deploy" ->
         Finally(Pub(Pub(r, Info(T("Fly deployment command initiated."))),
                     SuccessEvent(r)))
    [] OTHER ->
         Finally(Pub(r, Info(T("Cleaned up failed app ") \o r.uniqueAppName \o T("."))))

\* the .catch handler of POST /deploy: startDeployment rejected with `message`
RejectionHandler(r, message) ==
  [Pub(r, Event(T("Critical error initiating deployment: ") \o message,
                TRUE, TRUE, NoData))
     EXCEPT !.pc = "done"]

\* a cleanup that is tried again when its destroy command fails
CmdFailedRetriesCleanup(r, message) ==
  IF r.cmd.step = "destroy" /\ Len(r.settled) < 3
  THEN RunCommand(Pub(r, Err(T("Failed to cleanup app ") \o r.uniqueAppName \o T(": ")
                             \o message)),
                  "destroy", DestroyArgs(r))
  ELSE IF r.cmd.step = "destroy"
  THEN Finally(Pub(r, Err(T("Failed to cleanup app ") \o r.uniqueAppName \o T(": ")
                          \o message)))
  ELSE Catch(r, message)

\* a cleanup without its own try/catch: a failed destroy escapes the run
CmdFailedCleanupEscapes(r, message) ==
  IF r.cmd.step = "destroy"
  THEN RejectionHandler(r, message)
  ELSE Catch(r, message)

\* a run that goes on with the next step after a failed provisioning command
CmdFailedGoesOn(r, message) ==
  IF r.cmd.step = "destroy"
  THEN Finally(Pub(r, Err(T("Failed to cleanup app ") \o r.uniqueAppName \o T(": ")
                          \o message)))
  ELSE CmdSucceeded(r)

\* a cleanup failure that is marked complete as well
CmdFailedCompletesAgain(r, message) ==
  IF r.cmd.step = "destroy"
  THEN Finally(Pub(r, Event(T("Failed to cleanup app ") \o r.uniqueAppName \o T(": ")
                            \o message, TRUE, TRUE, NoData)))
  ELSE Catch(r, message)

\* the continuation after `await runCommand(...)` rejected with `message`
CmdFailed(r, message) ==
  IF r.cmd.step = "destroy"
  THEN Finally(Pub(r, Err(T("Failed to cleanup app ") \o r.uniqueAppName \o T(": ")
                          \o message)))
  ELSE Catch(r, message)

\* proc.stdout.on("data") / proc.stderr.on("data")
OnData(r, stream, data) ==
  LET line == Trim(data)
  IN IF line # <<>>
     THEN LET r1 == IF stream = "stdout"
                    THEN [r EXCEPT !.stdoutData = @ \o line \o T("\n")]
                    ELSE [r EXCEPT !.stderrData = @ \o line \o T("\n")]
          IN Pub(r1, Info(T("[") \o T(stream) \o T("] ") \o line))
     ELSE r

SpawnErrorMessage == T("spawn flyctl ENOENT")
\* the exit code the close event reports after a failed launch
LaunchExitCode == T("-2")

\* `Command "..." failed with exit code ${code}. Stderr: ${stderrData || "None"}`
ExitErrorMessage(commandString, code, stderrData) ==
  T("Command \"") \o commandString \o T("\" failed with exit code ") \o code
    \o T(". Stderr: ") \o (IF stderrData # <<>> THEN stderrData ELSE T("None"))

\* reject(new Error(message)) of the runCommand promise
Rejects(r, how, message) ==
  [r EXCEPT !.settled = Append(@, [commandString |-> r.cmd.commandString,
                                   how |-> how, kind |-> "rejected",
                                   stdout |-> <<>>, stderr |-> <<>>,
                                   exitCode |-> <<>>, message |-> message])]
\* resolve({ stdout: stdoutData, stderr: stderrData, exitCode: code })
Resolves(r, code) ==
  [r EXCEPT !.settled = Append(@, [commandString |-> r.cmd.commandString,
                                   how |-> "exit", kind |-> "resolved",
                                   stdout |-> r.stdoutData, stderr |-> r.stderrData,
                                   exitCode |-> code, message |-> <<>>])]

\* proc.on("error"): the promise rejects; the child's close event is still to come
OnError(r) ==
  LET m == T("Failed to start command \"") \o r.cmd.commandString \o T("\": ")
             \o SpawnErrorMessage
      r1 == Pub(r, Err(T("Spawn Error: ") \o SpawnErrorMessage))
      r2 == [r1 EXCEPT !.lateClose = @ \cup {[commandString |-> r.cmd.commandString,
                                               stderrData |-> r.stderrData]},
                       !.returned = @ + 1]
  IN CmdFailed(Rejects(r2, "launch", m), m)

ExitCodes == {0, 1}
\* a close handler that resolves whatever the exit code
OnCloseResolvesAlways(r, code) ==
  LET r1 == [r EXCEPT !.returned = @ + 1]
  IN CmdSucceeded(Resolves(Pub(r1, Info(T("Command \"") \o r.cmd.commandString
                                        \o T("\" completed successfully."))),
                           NumToString(code)))

\* proc.on("close") while the promise is pending
OnClose(r, code) ==
  LET r1 == [r EXCEPT !.returned = @ + 1]
  IN IF code # 0
     THEN LET m == ExitErrorMessage(r.cmd.commandString, NumToString(code), r.stderrData)
          IN CmdFailed(Rejects(Pub(r1, Err(m)), "exit", m), m)
     ELSE CmdSucceeded(Resolves(Pub(r1, Info(T("Command \"") \o r.cmd.commandString
                                             \o T("\" completed successfully."))),
                                NumToString(code)))

\* proc.on("close") of a child whose launch failed: the promise is settled already
OnLateClose(r, lc) ==
  Pub([r EXCEPT !.lateClose = @ \ {lc}],
      Err(ExitErrorMessage(lc.commandString, LaunchExitCode, lc.stderrData)))

WriteOutcomes == {"written", "failed", "failed_partial"}
\* the continuation after `await fs.writeFile(...)` settled
AfterWrite(r, outcome) ==
  LET r1 == [r EXCEPT !.returned = @ + 1]
  IN IF outcome = "written"
     THEN RunCommand(Pub(r1, Info(T("Deploying image '") \o ImageName
                                  \o T("' to Fly app '") \o r.uniqueAppName
                                  \o T("'..."))),
                     "deploy", DeployArgs(r1))
     ELSE Catch(r1, T("ENOSPC: no space left on device, write"))

\* a finally block that reports a failed delete to the subscriber
AfterUnlinkReportsFailure(r, outcome) ==
  LET r1 == [r EXCEPT !.returned = @ + 1, !.pc = "done", !.unlinkOutcome = outcome]
  IN IF outcome = "failed"
     THEN Pub(r1, Err(T("Warning: Failed to remove temporary config file ")
                      \o r.tempFlyTomlPath))
     ELSE r1

\* the continuation after `await fs.unlink(...)` settled, either way
AfterUnlink(r, outcome) ==
  [r EXCEPT !.returned = @ + 1, !.pc = "done", !.unlinkOutcome = outcome]

\* ------------------------------------------------------------- inputs
OrgAcme == <<"A", "c", "m", "e", " ", "I", "n", "c", "!">>
KeyK == <<"k">>
Blank == <<" ">>
\* request bodies of POST /deploy
Forms ==
  {[orgName |-> o, geminiKey |-> JsStr(KeyK)] :
     o \in {Undefined, JsStr(<<>>), JsStr(Blank), JsStr(OrgAcme), JsNum}}
  \cup
  {[orgName |-> JsStr(OrgAcme), geminiKey |-> g] :
     g \in {Undefined, JsStr(<<>>)}}
\* the request bodies with a non-blank organization name and secret
WellFormed ==
  {f \in Forms : /\ f.orgName.t = "string" /\ Trim(f.orgName.s) # <<>>
                 /\ f.geminiKey.t = "string" /\ Trim(f.geminiKey.s) # <<>>}
\* organization names: every name of one or two characters over letters of
\* both cases, a digit, a hyphen, a space, punctuation and U+0130, and names
\* of 39, 40 and 41 characters that end in each of these
NameAlphabet == {"A", "z", "5", "-", " ", "!", "U+0130"}
LongLengths == {MaxOrgLen - 1, MaxOrgLen, MaxOrgLen + 1}
OrgNames ==
  {<<c>> : c \in NameAlphabet}
  \cup {<<c, d>> : c \in NameAlphabet, d \in NameAlphabet}
  \cup {[j \in 1 .. n |-> IF j = n THEN c ELSE "A"] : n \in LongLengths, c \in NameAlphabet}
\* what a child process writes in one data event: an empty line, one line,
\* or two lines that arrive together
DataChunks == {<<"\n">>, <<"line", "\n">>, <<"line", "\n", "more", "\n">>}
\* the id in the response of the create-user request
UserId == T("user-1")
\* users[0].id in the response of the lookup by name
ExistingUserId == T("user-0")
TokenValue == T("token-1")

\* ------------------------------------------------------------- state
VARIABLES
  requests,     \* how many POST /deploy requests were handled
  nextId,       \* how many deployment identifiers were minted
  adminToken,   \* process.env.HUMANITEC_SERVICE_USER_API_TOKEN is set
  runs,         \* per identifier, its call of startDeployment
  clients,      \* the registry: per identifier, the registered transport
  conn,         \* per transport, its connection
  received,     \* per transport, the events written to it
  fs,           \* the temporary files that exist
  lastResponse  \* the last response of POST /deploy

vars == <<requests, nextId, adminToken, runs, clients, conn, received, fs, lastResponse>>

\* keys of the registry: every identifier, and one that is never minted
UnknownKey == MaxRuns + 1
Keys == Ids \cup {UnknownKey}

Idle == [state |-> "idle", id |-> 0, seenAt |-> 0, afterComplete |-> FALSE,
         replaced |-> FALSE]
NoResponse == [status |-> 0, deploymentId |-> <<>>,
               formData |-> [orgName |-> Undefined, geminiKey |-> Undefined]]

Init ==
  /\ requests = 0
  /\ nextId = 0
  /\ adminToken \in BOOLEAN
  /\ runs = [i \in Ids |-> Unused]
  /\ clients = [i \in Keys |-> NoClient]
  /\ conn = [t \in Transports \cup Viewers |-> Idle]
  /\ received = [t \in Transports \cup Viewers |-> <<>>]
  /\ fs = {}
  /\ lastResponse = NoResponse

Chan == [clients |-> clients, conn |-> conn, received |-> received]

\* every event of the run of key i so far (none for a key without a run)
Published(i) == IF i \in Ids THEN runs[i].published ELSE <<>>
CompletePublished(i) == \E j \in DOMAIN Published(i) : Published(i)[j].isComplete

\* a callback whose run is given up when it publishes with nobody registered
StepFailsWithoutSubscriber(i, r) ==
  LET new == SubSeq(r.published, Len(runs[i].published) + 1, Len(r.published))
      ch == SendAll(Chan, i, new)
      dropped == new # <<>> /\ clients[i] = NoClient
  IN /\ runs' = [runs EXCEPT ![i] = IF dropped THEN [r EXCEPT !.pc = "done"] ELSE r]
     /\ clients' = ch.clients
     /\ conn' = ch.conn
     /\ received' = ch.received

\* One callback of run i: the run moves to r, and the events it published in
\* this callback go through sendStatusUpdate in order.
Step(i, r) ==
  LET new == SubSeq(r.published, Len(runs[i].published) + 1, Len(r.published))
      ch == SendAll(Chan, i, new)
  IN /\ runs' = [runs EXCEPT ![i] = r]
     /\ clients' = ch.clients
     /\ conn' = ch.conn
     /\ received' = ch.received

\* ------------------------------------------------------------- entry point
\* POST /deploy: validation, randomUUID, startDeployment(...) without await
\* (it runs to its first suspension point), then the 202 response.  The
\* .catch handler attached to the returned promise runs only if
\* startDeployment rejects; every path of startDeployment ends inside its own
\* try/catch/finally, so the handler has no step of its own here.
Submit(formData, k) ==
  /\ requests < MaxRuns
  /\ requests' = requests + 1
  /\ IF ~Truthy(formData.orgName) \/ ~Truthy(formData.geminiKey)
     THEN /\ lastResponse' = [status |-> 400, deploymentId |-> <<>>,
                              formData |-> formData]
          /\ UNCHANGED <<nextId, adminToken, runs, clients, conn, received, fs>>
     ELSE /\ LET n == nextId + 1
                 r == StartDeployment(formData, n, k, adminToken)
             IN /\ nextId' = n
                /\ Step(n, [r EXCEPT !.atResponse =
                                       [pc |-> r.pc, returned |-> r.returned]])
                /\ lastResponse' = [status |-> 202, deploymentId |-> DeploymentId(n),
                                    formData |-> formData]
          /\ UNCHANGED <<adminToken, fs>>

\* POST /deploy while fewer than MaxRequests requests were handled
SubmitOne(formData, k) == requests < MaxRequests /\ Submit(formData, k)

\* GET /status/:deploymentId
ConnectedEvent == Info(T("Connected to status updates."))

\* a connect that replays what the run has published so far
ConnectReplays(t, key) ==
  /\ conn[t].state = "idle"
  /\ key \in Keys /\ (key \in Ids => key <= nextId)
  /\ clients' = [clients EXCEPT ![key] = t]
  /\ conn' = [u \in DOMAIN conn |->
                IF u = t
                THEN [state |-> "open", id |-> key, seenAt |-> Len(Published(key)),
                      afterComplete |-> CompletePublished(key), replaced |-> FALSE]
                ELSE IF clients[key] = u THEN [conn[u] EXCEPT !.replaced = TRUE]
                ELSE conn[u]]
  /\ received' = [received EXCEPT ![t] = Append(@, ConnectedEvent) \o Published(key)]
  /\ UNCHANGED <<requests, nextId, adminToken, runs, fs, lastResponse>>

Connect(t, key) ==
  /\ conn[t].state = "idle"
  /\ key \in Keys /\ (key \in Ids => key <= nextId)
  /\ clients' = [clients EXCEPT ![key] = t]
  /\ conn' = [u \in DOMAIN conn |->
                IF u = t
                THEN [state |-> "open", id |-> key, seenAt |-> Len(Published(key)),
                      afterComplete |-> CompletePublished(key), replaced |-> FALSE]
                ELSE IF clients[key] = u THEN [conn[u] EXCEPT !.replaced = TRUE]
                ELSE conn[u]]
  /\ received' = [received EXCEPT ![t] = Append(@, ConnectedEvent)]
  /\ UNCHANGED <<requests, nextId, adminToken, runs, fs, lastResponse>>

\* a close handler that leaves the registry alone
CloseKeepsRegistration(t) ==
  /\ conn[t].state \in {"open", "ended"}
  /\ conn' = [conn EXCEPT ![t].state = "closed"]
  /\ UNCHANGED <<requests, nextId, adminToken, runs, clients, received, fs, lastResponse>>

\* req.on("close"): the client went away, or the response was ended
Close(t) ==
  /\ conn[t].state \in {"open", "ended"}
  /\ clients' = [clients EXCEPT ![conn[t].id] = NoClient]
  /\ conn' = [conn EXCEPT ![t].state = "closed"]
  /\ UNCHANGED <<requests, nextId, adminToken, runs, received, fs, lastResponse>>

\* ------------------------------------------------------------- run callbacks
\* the field a callback reads from a response body: only a response of the
\* kind `ok` carries it
Field(outcome, ok, value) == IF outcome = ok THEN value ELSE <<>>

CreateUserReturns(i, outcome) ==
  /\ runs[i].pc = "await_createUser"
  /\ Step(i, AfterCreateUser(runs[i], outcome, Field(outcome, "created", UserId)))
  /\ UNCHANGED <<requests, nextId, adminToken, fs, lastResponse>>

LookupReturns(i, outcome) ==
  /\ runs[i].pc = "await_lookup"
  /\ Step(i, AfterLookup(runs[i], outcome, Field(outcome, "found", ExistingUserId)))
  /\ UNCHANGED <<requests, nextId, adminToken, fs, lastResponse>>

CreateTokenReturns(i, outcome) ==
  /\ runs[i].pc = "await_createToken"
  /\ Step(i, AfterCreateToken(runs[i], outcome, Field(outcome, "issued", TokenValue)))
  /\ UNCHANGED <<requests, nextId, adminToken, fs, lastResponse>>

ProcData(i, stream, data) ==
  /\ runs[i].pc = "await_cmd"
  /\ runs[i].chunks < MaxChunks
  /\ Step(i, OnData([runs[i] EXCEPT !.chunks = @ + 1,
                                    !.output = Append(@, <<stream, data>>)],
                     stream, data))
  /\ UNCHANGED <<requests, nextId, adminToken, fs, lastResponse>>

ProcError(i) ==
  /\ runs[i].pc = "await_cmd"
  /\ Step(i, OnError(runs[i]))
  /\ UNCHANGED <<requests, nextId, adminToken, fs, lastResponse>>

ProcClose(i, code) ==
  /\ runs[i].pc = "await_cmd"
  /\ Step(i, OnClose(runs[i], code))
  /\ UNCHANGED <<requests, nextId, adminToken, fs, lastResponse>>

ProcLateClose(i, lc) ==
  /\ lc \in runs[i].lateClose
  /\ Step(i, OnLateClose(runs[i], lc))
  /\ UNCHANGED <<requests, nextId, adminToken, fs, lastResponse>>

WriteReturns(i, outcome) ==
  /\ runs[i].pc = "await_write"
  /\ fs' = IF outcome \in {"written", "failed_partial"}
           THEN fs \cup {runs[i].tempFlyTomlPath} ELSE fs
  /\ Step(i, AfterWrite(runs[i], outcome))
  /\ UNCHANGED <<requests, nextId, adminToken, lastResponse>>

UnlinkOutcomes == {"removed", "failed"}
UnlinkReturns(i, outcome) ==
  /\ runs[i].pc = "await_unlink"
  /\ outcome = "removed" => runs[i].tempFlyTomlPath \in fs
  /\ fs' = IF outcome = "removed" THEN fs \ {runs[i].tempFlyTomlPath} ELSE fs
  /\ Step(i, AfterUnlink(runs[i], outcome))
  /\ UNCHANGED <<requests, nextId, adminToken, lastResponse>>

\* the callbacks of run i, the output of its child processes apart
RunNext(i) ==
  \/ \E o \in CreateUserOutcomes : CreateUserReturns(i, o)
  \/ \E o \in LookupOutcomes : LookupReturns(i, o)
  \/ \E o \in CreateTokenOutcomes : CreateTokenReturns(i, o)
  \/ ProcError(i)
  \/ \E c \in ExitCodes : ProcClose(i, c)
  \/ \E lc \in runs[i].lateClose : ProcLateClose(i, lc)
  \/ \E o \in WriteOutcomes : WriteReturns(i, o)
  \/ \E o \in UnlinkOutcomes : UnlinkReturns(i, o)

\* The whole program with NumViewers transports; child processes are silent.
Next ==
  \/ \E f \in Forms, k \in RandomSamples : SubmitOne(f, k)
  \/ \E t \in Viewers, key \in Keys : Connect(t, key)
  \/ \E t \in Viewers : Close(t)
  \/ \E i \in Ids : RunNext(i)

Spec == Init /\ [][Next]_vars

\* The broadcast channel with NumTransports transports, under the runs that
\* fail no later than credential issuance (no administrative credential, or
\* identity creation, lookup or token issuance fails): they publish
\* progress, the completion event, and the events of the cleanup after it.
TokenFailures == CreateTokenOutcomes \ {"issued"}
NextChannel ==
  \/ \E f \in Forms, k \in RandomSamples : SubmitOne(f, k)
  \/ \E t \in Transports, key \in Keys : Connect(t, key)
  \/ \E t \in Transports : Close(t)
  \/ \E i \in Ids, o \in CreateUserOutcomes : CreateUserReturns(i, o)
  \/ \E i \in Ids, o \in LookupOutcomes : LookupReturns(i, o)
  \/ \E i \in Ids, o \in TokenFailures : CreateTokenReturns(i, o)
  \/ \E i \in Ids : ProcError(i)
  \/ \E i \in Ids, c \in ExitCodes : ProcClose(i, c)
  \/ \E i \in Ids : \E lc \in runs[i].lateClose : ProcLateClose(i, lc)

SpecChannel == Init /\ [][NextChannel]_vars

\* Concurrent runs: up to MaxRuns well-formed requests, each with its own
\* outcome of Math.random(), whose runs fail at identity creation (or before
\* it, without the administrative credential) and then clean up, with
\* NumTransports transports connecting under any identifier.
IdentityFailures == {"http_error"}
NextConcurrent ==
  \/ \E f \in WellFormed, k \in RandomSamples : Submit(f, k)
  \/ \E t \in Transports, key \in Keys : Connect(t, key)
  \/ \E t \in Transports : Close(t)
  \/ \E i \in Ids, o \in IdentityFailures : CreateUserReturns(i, o)
  \/ \E i \in Ids : ProcError(i)
  \/ \E i \in Ids, c \in ExitCodes : ProcClose(i, c)
  \/ \E i \in Ids : \E lc \in runs[i].lateClose : ProcLateClose(i, lc)

SpecConcurrent == Init /\ [][NextConcurrent]_vars

\* The orchestrator with the output of its child processes, under well-formed
\* requests with one outcome of Math.random(), no transport.
NextOutput ==
  \/ \E f \in WellFormed : SubmitOne(f, 0)
  \/ \E i \in Ids : RunNext(i)
  \/ \E i \in Ids, s \in {"stdout", "stderr"}, d \in DataChunks : ProcData(i, s, d)

SpecOutput == Init /\ [][NextOutput]_vars

\* The program under well-formed requests with one outcome of Math.random(),
\* when every external call of a run settles: each pending fetch, child
\* process and file operation eventually calls back.  Nothing is assumed
\* about clients: they may submit, connect and disconnect, or not.
NextReturning ==
  \/ \E f \in WellFormed : SubmitOne(f, 0)
  \/ \E t \in Viewers, key \in Keys : Connect(t, key)
  \/ \E t \in Viewers : Close(t)
  \/ \E i \in Ids : RunNext(i)

\* the identifiers minted when at most MaxRequests requests are handled
Minted == 1 .. MaxRequests
SpecReturning ==
  Init /\ [][NextReturning]_vars /\ \A i \in Minted : WF_vars(RunNext(i))

\* Concurrent runs that reach the descriptor: up to MaxRuns well-formed
\* requests, each with its own outcome of Math.random(); identity and token
\* are issued; every command exits with either code; the write and the delete
\* end either way.  No transport.
NextDescriptors ==
  \/ \E f \in WellFormed, k \in RandomSamples : Submit(f, k)
  \/ \E i \in Ids : CreateUserReturns(i, "created")
  \/ \E i \in Ids : CreateTokenReturns(i, "issued")
  \/ \E i \in Ids, c \in ExitCodes : ProcClose(i, c)
  \/ \E i \in Ids, o \in WriteOutcomes : WriteReturns(i, o)
  \/ \E i \in Ids, o \in UnlinkOutcomes : UnlinkReturns(i, o)

SpecDescriptors == Init /\ [][NextDescriptors]_vars

\* The name derivation: one request with any organization name of OrgNames
\* and either outcome of Math.random(), up to the first suspension point of
\* its run.
NextNames ==
  \E o \in OrgNames, k \in RandomSamples :
    SubmitOne([orgName |-> JsStr(o), geminiKey |-> JsStr(KeyK)], k)

SpecNames == Init /\ [][NextNames]_vars

\* ------------------------------------------------------------- observations
IsSpawn(c, verb) ==
  c.kind = "spawn" /\ Len(c.args) >= 3 /\ c.args[1] = T("apps") /\ c.args[2] = T(verb)
\* the destroy-application commands run i has issued, in order
Destroys(i) == SelectSeq(runs[i].calls, LAMBDA c : IsSpawn(c, "destroy"))
\* the create-application commands run i has issued
Creates(i) == SelectSeq(runs[i].calls, LAMBDA c : IsSpawn(c, "create"))
\* the deletes of a temporary file run i has attempted
Unlinks(i) == SelectSeq(runs[i].calls, LAMBDA c : c.kind = "unlink")

Started(i) == runs[i].pc # "unused"
Ended(i) == runs[i].pc = "done"
\* run i entered its catch block
Failed(i) == runs[i].failedAt.pc # "none"
\* the create-application command of run i exited zero
AppCreated(i) ==
  \E j \in DOMAIN runs[i].published :
    runs[i].published[j].message
      = T("Fly app '") \o runs[i].uniqueAppName \o T("' created.")
\* the create-application command of run i was issued and failed
CreateFailed(i) ==
  runs[i].failedAt.pc = "await_cmd" /\ runs[i].failedAt.step = "create"
\* run i failed before it reached the create-application step
FailedBeforeCreate(i) ==
  runs[i].failedAt.pc \in {"unused", "await_createUser", "await_lookup",
                           "await_createToken"}
\* the cleanup of run i failed
CleanupFailed(i) ==
  \E j \in DOMAIN runs[i].published :
    /\ runs[i].published[j].isError
    /\ runs[i].published[j].message[1] = "Failed to cleanup app "

\* the completion events in a sequence of events
Completions(evs) == SelectSeq(evs, LAMBDA e : e.isComplete)
\* what transport t received after the confirmation of its connection
Delivered(t) == Tail(received[t])
\* a completion event was delivered to some transport of key
CompleteDelivered(key) ==
  \E u \in DOMAIN conn :
    conn[u].state # "idle" /\ conn[u].id = key /\ Completions(received[u]) # <<>>

\* the events run i publishes in the step at hand
NewEvents(i) ==
  SubSeq(runs'[i].published, Len(runs[i].published) + 1, Len(runs'[i].published))
\* the events of evs up to and including its first completion event
RECURSIVE UpToCompletion(_)
UpToCompletion(evs) ==
  IF evs = <<>> THEN <<>>
  ELSE IF Head(evs).isComplete THEN <<Head(evs)>>
  ELSE <<Head(evs)>> \o UpToCompletion(Tail(evs))
\* transport t is connected for a minted identifier and is the last transport
\* that connected for it
Subscribed(t) == conn[t].state = "open" /\ ~conn[t].replaced /\ conn[t].id \in Ids

\* what run r can become in one callback, given only the run itself and how
\* the external call it waits for settles
Continuations(r) ==
  (CASE r.pc = "await_createUser" ->
          {AfterCreateUser(r, o, UserId) : o \in CreateUserOutcomes}
     [] r.pc = "await_lookup" ->
          {AfterLookup(r, o, ExistingUserId) : o \in LookupOutcomes}
     [] r.pc = "await_createToken" ->
          {AfterCreateToken(r, o, TokenValue) : o \in CreateTokenOutcomes}
     [] r.pc = "await_cmd" -> {OnError(r)} \cup {OnClose(r, c) : c \in ExitCodes}
     [] r.pc = "await_write" -> {AfterWrite(r, o) : o \in WriteOutcomes}
     [] r.pc = "await_unlink" -> {AfterUnlink(r, o) : o \in UnlinkOutcomes}
     [] OTHER -> {})
  \cup {OnLateClose(r, lc) : lc \in r.lateClose}
\* what the run of the n-th identifier can be when POST /deploy responds
Beginnings(n) ==
  {[r EXCEPT !.atResponse = [pc |-> r.pc, returned |-> r.returned]] :
     r \in {StartDeployment(f, n, k, adminToken) : f \in Forms, k \in RandomSamples}}
\* run i waits for an external call to settle
Pending(i) == runs[i].pc \notin {"unused", "done"}

\* the deploy commands run i has issued
Deploys(i) ==
  SelectSeq(runs[i].calls,
            LAMBDA c : c.kind = "spawn" /\ Len(c.args) >= 3 /\ c.args[1] = T("deploy"))
\* the last event run i published
LastPublished(i) == runs[i].published[Len(runs[i].published)]

\* the set-secret commands run i has issued
SecretSets(i) ==
  SelectSeq(runs[i].calls,
            LAMBDA c : c.kind = "spawn" /\ Len(c.args) >= 2 /\ c.args[1] = T("secrets"))
\* run i published an event with this message
Said(i, message) ==
  \E j \in DOMAIN runs[i].published : runs[i].published[j].message = message
\* the set-secret command of run i for its n-th key exited with code 1
SecretExitedNonZero(i, n) ==
  /\ runs[i].failedAt = [pc |-> "await_cmd", step |-> "secret"]
  /\ runs[i].secretIdx = n
  /\ \E j \in DOMAIN runs[i].published :
       /\ runs[i].published[j].isError
       /\ runs[i].published[j].message
            = ExitErrorMessage(CommandString(Flyctl, SecretArgs(runs[i], n)),
                               NumToString(1), <<>>)
\* run i published an error event that names the n-th configuration key
FailureNames(i, n) ==
  \E j \in DOMAIN runs[i].published :
    /\ runs[i].published[j].isError
    /\ \E k \in DOMAIN runs[i].published[j].message :
         runs[i].published[j].message[k] = Secrets(runs[i])[n][1][1]

\* the requests run i made to the identity API whose URL starts with prefix
Fetches(i, prefix) ==
  SelectSeq(runs[i].calls, LAMBDA c : c.kind = "fetch" /\ c.what[1] = prefix)
CreateUserCalls(i) == Fetches(i, "POST https://api.humanitec.io/orgs/")
LookupCalls(i) == Fetches(i, "GET https://api.humanitec.io/orgs/")
TokenCalls(i) == Fetches(i, "POST https://api.humanitec.io/users/")
\* the create-user request of run i returned a conflict (409)
IdentityConflict(i) ==
  Said(i, T("Service user '") \o ServiceUserName(runs[i])
          \o T("' already exists. Fetching ID..."))

\* name matches the pattern <prefix>\d{4}, prefix given character by character
MatchesWithFourDigits(name, prefix) ==
  /\ Len(name) = Len(prefix) + 4
  /\ SubSeq(name, 1, Len(prefix)) = prefix
  /\ \A j \in Len(prefix) + 1 .. Len(name) : name[j] \in Range(Digit)

\* run i published an event of the rejection handler of POST /deploy
Rejected(i) ==
  \E j \in DOMAIN runs[i].published :
    runs[i].published[j].message[1] = "Critical error initiating deployment: "
\* the step at hand settles the destroy command of run i
DestroySettles(i) ==
  /\ runs[i].pc = "await_cmd" /\ runs[i].cmd.step = "destroy"
  /\ runs'[i].pc # "await_cmd"
\* some event run i publishes in the step at hand satisfies P
Publishes(i, P(_)) == \E j \in DOMAIN NewEvents(i) : P(NewEvents(i)[j])

\* the token request of run i returned a conflict (409)
TokenConflict(i) ==
  \E j \in DOMAIN runs[i].published :
    \E k \in DOMAIN runs[i].published[j].message :
      runs[i].published[j].message[k] = "Token with ID '"

\* the destroy command of run i has settled
CleanupFinished(i) ==
  /\ Destroys(i) # <<>>
  /\ ~(runs[i].pc = "await_cmd" /\ runs[i].cmd.step = "destroy")
\* the positions in evs of the events that announce or report the cleanup
CleanupEvents(evs) ==
  {j \in DOMAIN evs :
     evs[j].message[1] \in {"Attempting to clean up failed deployment for app ",
                            "Cleaned up failed app ", "Failed to cleanup app "}}

\* the step of the run that external call c belongs to (a set-secret command
\* is named by its configuration key)
StepOf(c) ==
  CASE c.kind = "fetch" /\ c.what[1] = "POST https://api.humanitec.io/orgs/" -> "createUser"
    [] c.kind = "fetch" /\ c.what[1] = "GET https://api.humanitec.io/orgs/" -> "lookup"
    [] c.kind = "fetch" /\ c.what[1] = "POST https://api.humanitec.io/users/" -> "token"
    [] IsSpawn(c, "create") -> "create"
    [] IsSpawn(c, "destroy") -> "destroy"
    [] c.kind = "spawn" /\ c.args[1] = T("secrets") -> c.args[5][1]
    [] c.kind = "spawn" /\ c.args[1] = T("deploy") -> "deploy"
    [] c.kind = "writeFile" -> "writeFile"
    [] c.kind = "unlink" -> "unlink"
    [] OTHER -> "other"
\* the steps of the external calls of run i, in the order they were issued
StepsOf(i) == [j \in DOMAIN runs[i].calls |-> StepOf(runs[i].calls[j])]
\* the provisioning steps in their order (the lookup, taken only after a
\* conflict, apart)
ProvisioningOrder ==
  <<"createUser", "token", "create",
    "GOOGLE_API_KEY", "HUMANITEC_TOKEN", "DEFAULT_MODEL", "ENABLE_MCP",
    "MINIO_ACCESS_KEY_ID", "MINIO_BUCKET", "MINIO_ENDPOINT",
    "MINIO_SECRET_ACCESS_KEY", "MINIO_USE_SSL", "writeFile", "deploy">>
Teardown == {"destroy", "unlink"}
IsPrefix(s, t) == Len(s) <= Len(t) /\ s = SubSeq(t, 1, Len(s))
\* run i has published an isError=true event
ErrorPublished(i) ==
  \E j \in DOMAIN runs[i].published : runs[i].published[j].isError

\* the events of run i that note the skip of a configuration key
Skips(i) == SelectSeq(runs[i].published, LAMBDA e : e.message[1] = "Skipping secret ")
\* the events of run i that note the skip of its n-th configuration key
SkipsOf(i, n) ==
  SelectSeq(runs[i].published,
            LAMBDA e : e.message = T("Skipping secret ") \o Secrets(runs[i])[n][1]
                                     \o T(" as value is empty."))
\* the keys of run i whose value is not empty, in the order of the keys
KeysToSet(i) ==
  SelectSeq([n \in DOMAIN Secrets(runs[i]) |-> n],
            LAMBDA n : Secrets(runs[i])[n][2] # <<>>)
\* run i has left its secrets loop
SecretsProcessed(i) == Said(i, T("All secrets processed."))

\* the descriptor write of run i succeeded
DescriptorWritten(i) ==
  \E j \in DOMAIN runs[i].published :
    runs[i].published[j].message[1] = "Deploying image '"

\* the commands run i has launched
Spawns(i) == SelectSeq(runs[i].calls, LAMBDA c : c.kind = "spawn")
\* the position in evs of the last announcement of a command (0 if none)
LastExecuting(evs) ==
  LET at == {j \in DOMAIN evs : evs[j].message[1] = "Executing: "}
  IN IF at = {} THEN 0 ELSE CHOOSE j \in at : \A k \in at : k <= j
\* the lines in evs tagged with stream, each followed by a newline, in order
RECURSIVE TaggedLines(_, _)
TaggedLines(evs, stream) ==
  IF evs = <<>> THEN <<>>
  ELSE LET m == Head(evs).message
       IN (IF Len(m) >= 4 /\ m[1] = "[" /\ m[2] = stream
           THEN SubSeq(m, 4, Len(m)) \o T("\n") ELSE <<>>)
          \o TaggedLines(Tail(evs), stream)
\* what the command at hand has written to stream, as its progress events show
Accumulated(evs, stream) ==
  TaggedLines(SubSeq(evs, LastExecuting(evs) + 1, Len(evs)), stream)

\* the lines of data: its text between newlines, empty lines apart
RECURSIVE LinesFrom(_, _)
LinesFrom(data, line) ==
  IF data = <<>> THEN (IF line = <<>> THEN <<>> ELSE <<line>>)
  ELSE IF Head(data) = "\n"
  THEN (IF line = <<>> THEN <<>> ELSE <<line>>) \o LinesFrom(Tail(data), <<>>)
  ELSE LinesFrom(Tail(data), Append(line, Head(data)))
Lines(data) == LinesFrom(data, <<>>)
\* one progress event per line of every data event in output, in order
RECURSIVE LineEvents(_)
LineEvents(output) ==
  IF output = <<>> THEN <<>>
  ELSE LET stream == Head(output)[1]
           lines == Lines(Head(output)[2])
       IN [j \in DOMAIN lines |-> Info(T("[") \o T(stream) \o T("] ") \o lines[j])]
          \o LineEvents(Tail(output))
\* the events of run i that carry output of a child process
OutputEvents(i) ==
  SelectSeq(runs[i].published, LAMBDA e : e.message[1] = "[")

\* text s occurs in text m
Contains(m, s) ==
  \E k \in 0 .. Len(m) - Len(s) : SubSeq(m, k + 1, k + Len(s)) = s

\* the events run i published before POST /deploy responded: those of
\* startDeployment up to its first suspension point
SyncPrefix(i) ==
  SubSeq(runs[i].published, 1,
         Len(StartDeployment(runs[i].formData, i, 0, adminToken).published))

\* run i has published the success completion event
Succeeded(i) ==
  \E j \in DOMAIN runs[i].published :
    runs[i].published[j].isComplete /\ ~runs[i].published[j].isError

\* the paths run i has written or deleted
DescriptorPaths(i) ==
  {runs[i].calls[j].what :
     j \in {k \in DOMAIN runs[i].calls : runs[i].calls[k].kind \in {"writeFile", "unlink"}}}

\* run i failed with an error of the identity or token setup whose text
\* starts with reason
SetupFailedWith(i, reason) ==
  \E j \in DOMAIN runs[i].published :
    /\ runs[i].published[j].isComplete /\ runs[i].published[j].isError
    /\ Len(runs[i].published[j].message) >= 3
    /\ runs[i].published[j].message[3] = reason

\* a request field that is missing, empty, or empty after trimming
IsBlank(v) == v.t = "undefined" \/ (v.t = "string" /\ Trim(v.s) = <<>>)
BlankRequest(f) == IsBlank(f.orgName) \/ IsBlank(f.geminiKey)

\* ------------------------------------------------------------- claims
\* C1: for every deployment identifier, at most one isComplete=true event is
\* ever delivered, and no event for that identifier is delivered to any
\* transport after it (the confirmation a connect itself writes apart).
C1_NothingDeliveredAfterCompletion ==
  [][\A t \in DOMAIN conn :
       (conn[t].state # "idle" /\ received'[t] # received[t])
         => ~CompleteDelivered(conn[t].id)]_vars

\* C2: once the run of a valid request has ended and nothing of it is
\* pending, every transport that connected with its identifier and is still
\* connected (not closed, not replaced) has received exactly one
\* isComplete=true event,
\* as its last event, carrying the URL on success and no payload on error.
C2_SubscriberGetsCompletion ==
  \A t \in DOMAIN conn : \A i \in Ids :
    (/\ conn[t].id = i /\ conn[t].state \in {"open", "ended"} /\ ~conn[t].replaced
     /\ Ended(i) /\ runs[i].lateClose = {} /\ ~BlankRequest(runs[i].formData)
     /\ runs[i].formData.orgName.t = "string")
      => /\ Len(Completions(received[t])) = 1
         /\ received[t][Len(received[t])].isComplete
         /\ LET e == received[t][Len(received[t])]
            IN IF e.isError THEN e.data = NoData
               ELSE e.data = << <<T("appUrl"), AppUrl(runs[i])>> >>

\* C3: while a transport stays connected for an identifier (connected, not
\* closed, not completed, not replaced by a later connect), it has received
\* every event the run published since its connect, once and in order.
C3_NoDropWhileConnected ==
  \A t \in DOMAIN conn :
    (conn[t].state = "open" /\ ~conn[t].replaced /\ conn[t].id \in Ids)
      => Delivered(t) = SubSeq(Published(conn[t].id), conn[t].seenAt + 1,
                               Len(Published(conn[t].id)))

\* C4: a run that fails after its create-application command succeeded has
\* issued exactly one destroy-application command, whose argument is the
\* application name passed to the create command.
C4_OneDestroyOfCreatedApp ==
  \A i \in Ids :
    (AppCreated(i) /\ Failed(i))
      => /\ Len(Destroys(i)) = 1
         /\ Len(Creates(i)) = 1
         /\ Destroys(i)[1].args[3] = Creates(i)[1].args[3]
         /\ Destroys(i)[1].args[3] = runs[i].uniqueAppName
C4_Witness ==
  \E i \in Ids :
    /\ Ended(i) /\ AppCreated(i) /\ Failed(i)
    /\ runs[i].failedAt = [pc |-> "await_cmd", step |-> "secret"]

\* C5: a run whose create-application command failed never issues a
\* destroy-application command.
C5_NoDestroyAfterFailedCreate ==
  \A i \in Ids : CreateFailed(i) => Destroys(i) = <<>>

\* C6: a run that fails before the create-application step is reached issues
\* no destroy-application command.
C6_NoDestroyBeforeCreate ==
  \A i \in Ids : FailedBeforeCreate(i) => Destroys(i) = <<>>

\* C7 as stated: after a run has ended, the temporary descriptor file it
\* wrote is absent from the filesystem.
C7_TempFileAbsent ==
  \A i \in Ids : Ended(i) => TempFlyTomlPath(runs[i]) \notin fs

\* C7 amended: a run that set the path of its temporary descriptor file has,
\* when it ends, attempted exactly one delete of that path, as its last
\* external call, on success and on failure paths alike, and the file is
\* absent from the filesystem unless that delete failed.
C7_TempFileDeletedUnlessUnlinkFails ==
  \A i \in Ids :
    (Ended(i) /\ runs[i].tempFlyTomlPath # <<>>)
      => /\ Len(Unlinks(i)) = 1
         /\ runs[i].calls[Len(runs[i].calls)]
              = [kind |-> "unlink", what |-> runs[i].tempFlyTomlPath, args |-> <<>>]
         /\ (runs[i].unlinkOutcome = "removed" => runs[i].tempFlyTomlPath \notin fs)
C7_Witness ==
  \E i \in Ids :
    /\ Ended(i) /\ CleanupFailed(i)
    /\ runs[i].failedAt = [pc |-> "await_cmd", step |-> "deploy"]
    /\ runs[i].unlinkOutcome = "removed" /\ runs[i].tempFlyTomlPath \notin fs

\* C8: a request in which the organization name or the secret is blank
\* (missing, empty, or empty after trimming) is answered with a validation
\* error, and handling it mints no identifier, starts no run, and changes
\* neither the registry nor the filesystem.
C8_BlankRequestRejected ==
  [][(requests' # requests /\ BlankRequest(lastResponse'.formData))
       => /\ lastResponse'.status = 400
          /\ UNCHANGED <<nextId, runs, clients, conn, received, fs>>]_vars

\* C9: for an accepted request whose organization name is a string, the
\* response was sent while the run was suspended at an await (not ended),
\* before any external call of the run had settled.
C9_ResponseBeforeRunEnds ==
  \A i \in Ids :
    (Started(i) /\ runs[i].formData.orgName.t = "string")
      => /\ runs[i].atResponse.pc \notin {"done", "unused"}
         /\ runs[i].atResponse.returned = 0
C9_Witness ==
  \E i \in Ids :
    /\ lastResponse.status = 202
    /\ lastResponse.deploymentId = runs[i].deploymentId
    /\ runs[i].atResponse.pc = "await_cmd"
    /\ runs[i].pc = "await_cmd" /\ runs[i].returned = 0

\* C10: a transport that connected for an identifier after the completion
\* event of that identifier was published receives no event (the
\* confirmation of its own connect apart).
C10_NothingAfterTerminalEvent ==
  \A t \in DOMAIN conn : conn[t].afterComplete => Delivered(t) = <<>>

\* C11: a connect makes the calling transport the registered subscriber of
\* its identifier in place of any earlier one; from then on the replaced
\* transport receives nothing more, and every event the run publishes (up to
\* its completion event) while the new transport stays connected and is not
\* itself replaced is delivered to the new transport.
C11_ConnectReplacesSubscriber ==
  [][\A t \in DOMAIN conn :
       /\ (conn[t].state = "idle" /\ conn'[t].state = "open")
            => clients'[conn'[t].id] = t
       /\ conn[t].replaced => received'[t] = received[t]
       /\ (Subscribed(t) /\ conn'[t].state # "closed" /\ ~conn'[t].replaced)
            => received'[t] = received[t] \o UpToCompletion(NewEvents(conn[t].id))]_vars

\* C12: a step that delivers a completion event to a transport delivers it
\* as the last event of that step and of that transport, ends the transport
\* and leaves the registry without an entry for its identifier; a transport
\* that was ended or closed receives nothing in any later step.
C12_CompletionClosesTransport ==
  [][\A t \in DOMAIN conn :
       /\ Completions(received'[t]) # Completions(received[t])
            => /\ conn[t].state = "open"
               /\ conn'[t].state = "ended"
               /\ clients'[conn[t].id] = NoClient
               /\ received'[t][Len(received'[t])].isComplete
               /\ Len(Completions(received'[t])) = 1
       /\ conn[t].state \in {"ended", "closed"} => received'[t] = received[t]]_vars
C12_Witness ==
  \E t \in DOMAIN conn :
    /\ conn[t].state = "ended" /\ conn[t].id \in Ids
    /\ received[t][Len(received[t])].isComplete
    /\ clients[conn[t].id] = NoClient
    /\ Len(Published(conn[t].id)) > conn[t].seenAt + Len(Delivered(t))

\* C13: when the registered transport of an identifier disconnects before
\* the completion event, the registry entry of the identifier is removed;
\* and while an identifier has no registry entry, a step in which its run
\* publishes events delivers nothing and leaves registry, connections and
\* deliveries as they were.
C13_DisconnectThenDrop ==
  [][/\ \A t \in DOMAIN conn :
          (conn[t].state = "open" /\ clients[conn[t].id] = t
             /\ conn'[t].state = "closed")
            => clients'[conn[t].id] = NoClient
     /\ \A i \in Ids :
          (clients[i] = NoClient /\ runs'[i] # runs[i])
            => UNCHANGED <<clients, conn, received>>]_vars
C13_Witness ==
  \E t \in DOMAIN conn :
    /\ conn[t].state = "closed" /\ conn[t].id \in Ids /\ ~conn[t].replaced
    /\ Completions(received[t]) = <<>>
    /\ clients[conn[t].id] = NoClient
    /\ Len(Published(conn[t].id)) > conn[t].seenAt + Len(Delivered(t))

\* C14: whatever the transports do (none connects, one connects late, one
\* disconnects mid-run), each step of a run is a continuation of the run
\* alone, determined by the run and by how its external call settled, so its
\* sequence of external calls only grows as those continuations dictate; a
\* run that waits for an external call can always take its callback; and
\* when external calls settle every started run reaches its end.
C14_RunIndependentOfSubscriber ==
  /\ [][\A i \in Ids :
          runs'[i] # runs[i]
            => runs'[i] \in (IF runs[i].pc = "unused" THEN Beginnings(i)
                             ELSE Continuations(runs[i]))]_vars
  /\ [](\A i \in Minted : Pending(i) => ENABLED RunNext(i))
  /\ \A i \in Minted : Started(i) ~> Ended(i)
\* a run ended on its success path although no transport ever connected
C14_Witness ==
  \E i \in Ids :
    /\ Ended(i) /\ ~Failed(i)
    /\ \A t \in Viewers : conn[t].state = "idle"

\* C15: with runs in progress under distinct identifiers, a step in which
\* the run of identifier A publishes changes neither the deliveries nor the
\* connection of any transport that connected under another identifier, and
\* a connect, a disconnect, a publish or a completion for A leaves the
\* registry entry of every other identifier B as it was.
C15_NoCrossTalk ==
  [][/\ \A a \in Ids :
          runs'[a] # runs[a]
            => /\ \A b \in Keys \ {a} : clients'[b] = clients[b]
               /\ \A t \in DOMAIN conn :
                    conn[t].id # a => (received'[t] = received[t] /\ conn'[t] = conn[t])
     /\ \A t \in DOMAIN conn :
          (conn'[t].state # conn[t].state /\ runs' = runs)
            => \A b \in Keys \ {conn'[t].id} : clients'[b] = clients[b]]_vars
\* two runs in progress, each with its own subscriber that has received
\* events of its run
C15_Witness ==
  \E t, u \in Transports :
    /\ conn[t].id = 1 /\ conn[u].id = 2
    /\ Delivered(t) # <<>> /\ Delivered(u) # <<>>
    /\ Pending(1) /\ Pending(2)

\* C16: when a run has ended without entering its catch block (every step
\* succeeded), the last event it published has isComplete=true,
\* isError=false and the single data entry appUrl = https://<name><base
\* domain>, where <name> is the application name given to the create
\* command and to the deploy command.
C16_SuccessEvent ==
  \A i \in Ids :
    (Ended(i) /\ ~Failed(i))
      => /\ LastPublished(i).isComplete /\ ~LastPublished(i).isError
         /\ Len(Creates(i)) = 1 /\ Len(Deploys(i)) = 1
         /\ Creates(i)[1].args[3] = Deploys(i)[1].args[3]
         /\ LastPublished(i).data
              = << <<T("appUrl"),
                     T("https://") \o Creates(i)[1].args[3] \o BaseDomain>> >>
C16_Witness ==
  \E i \in Ids :
    /\ Ended(i) /\ ~Failed(i) /\ runs[i].unlinkOutcome = "removed"
    /\ runs[i].formData.orgName = JsStr(OrgAcme)

\* C17: when the set-secret command of a run exited non-zero on the third
\* key and the run has ended, its published events show the first two keys
\* set and an error event naming the third key, it issued exactly one
\* destroy-application command and no set-secret command for a later key,
\* and the final event it published has isComplete=true and isError=true.
C17_ThirdSecretFails ==
  \A i \in Ids :
    (Ended(i) /\ SecretExitedNonZero(i, 3))
      => /\ Said(i, T("Secret ") \o Secrets(runs[i])[1][1] \o T(" set."))
         /\ Said(i, T("Secret ") \o Secrets(runs[i])[2][1] \o T(" set."))
         /\ FailureNames(i, 3)
         /\ Len(Destroys(i)) = 1
         /\ Len(SecretSets(i)) = 3
         /\ LastPublished(i).isComplete /\ LastPublished(i).isError

\* C18: a run whose identity creation returned a conflict has made exactly
\* one lookup by name and only the one create-identity request; once the
\* lookup has returned, either it failed or found nothing, and the run
\* failed there without requesting a credential, or the run requested one
\* credential, for the identifier the lookup found.
C18_ConflictLookup ==
  \A i \in Ids :
    IdentityConflict(i)
      => /\ Len(LookupCalls(i)) = 1
         /\ Len(CreateUserCalls(i)) = 1
         /\ runs[i].pc # "await_lookup"
              => IF runs[i].failedAt.pc = "await_lookup"
                 THEN /\ TokenCalls(i) = <<>>
                      /\ \E j \in DOMAIN runs[i].published :
                           runs[i].published[j].isError /\ runs[i].published[j].isComplete
                 ELSE /\ Len(TokenCalls(i)) = 1
                      /\ TokenCalls(i)[1].what
                           = T("POST https://api.humanitec.io/users/")
                               \o ExistingUserId \o T("/tokens")
                      /\ runs[i].newUserId = ExistingUserId
C18_Witness ==
  \E i \in Ids :
    /\ IdentityConflict(i) /\ Ended(i) /\ ~Failed(i)
    /\ Len(TokenCalls(i)) = 1 /\ runs[i].newUserId = ExistingUserId

\* C19: for the request with organization name "Acme Inc!" the derived
\* application name matches acme-inc-\d{4}: the characters acme-inc-
\* followed by exactly four digits.
C19_AcmeIncName ==
  \A i \in Ids :
    (Started(i) /\ runs[i].formData.orgName = JsStr(OrgAcme))
      => MatchesWithFourDigits(runs[i].uniqueAppName,
                               <<"a", "c", "m", "e", "-", "i", "n", "c", "-">>)

\* C20: a transport that asked for an identifier no request was given is
\* not left open and is not registered: its request failed or was ended at
\* once, and the registry has no entry for that identifier.
C20_UnknownIdRefused ==
  /\ clients[UnknownKey] = NoClient
  /\ \A t \in DOMAIN conn :
       (conn[t].state # "idle" /\ conn[t].id = UnknownKey)
         => conn[t].state \in {"ended", "closed"}

\* C21: a step in which a run fails (enters its catch block: identity or
\* token API error, command exit or launch failure, descriptor write
\* failure) publishes an isError=true event; a step in which its cleanup
\* command settles publishes either the cleanup success note or an
\* isError=true event; and the run never rejects: no event of the entry
\* point's rejection handler is ever published, and never a second
\* completion event.
C21_ErrorsCaughtInRun ==
  [][\A i \in Ids :
       /\ (runs[i].failedAt.pc = "none" /\ runs'[i].failedAt.pc # "none")
            => Publishes(i, LAMBDA e : e.isError)
       /\ DestroySettles(i)
            => \/ Publishes(i, LAMBDA e : e.isError /\ ~e.isComplete)
               \/ Publishes(i, LAMBDA e : e.message = T("Cleaned up failed app ")
                                           \o runs[i].uniqueAppName \o T("."))
       /\ ~Rejected(i)'
       /\ Len(Completions(runs'[i].published)) <= 1]_vars
\* a run ended after its descriptor write failed and its cleanup failed to launch
C21_Witness ==
  \E i \in Ids :
    /\ Ended(i) /\ runs[i].failedAt.pc = "await_write" /\ CleanupFailed(i)
    /\ Len(Completions(runs[i].published)) = 1

\* C22: a run whose credential issuance returned a conflict has failed
\* there, made no second token request, and never issues a
\* create-application, set-secret or deploy command.
C22_TokenConflictFatal ==
  \A i \in Ids :
    TokenConflict(i)
      => /\ runs[i].failedAt.pc = "await_createToken"
         /\ Len(TokenCalls(i)) = 1
         /\ Creates(i) = <<>> /\ SecretSets(i) = <<>> /\ Deploys(i) = <<>>
         /\ \E j \in DOMAIN runs[i].published :
              runs[i].published[j].isError /\ runs[i].published[j].isComplete
C22_Witness ==
  \E i \in Ids : TokenConflict(i) /\ Ended(i) /\ runs[i].lateClose = {}

\* C23: for a run that failed after its application was created, a
\* transport connected since before the failure receives the completion
\* event only when the cleanup attempt has finished, as its last event,
\* after an isError=true failure event and then the events of the cleanup.
C23_CleanupBeforeCompletion ==
  \A i \in Ids : \A t \in DOMAIN conn :
    (/\ AppCreated(i) /\ Failed(i)
     /\ conn[t].state \in {"open", "ended"} /\ conn[t].id = i /\ ~conn[t].replaced
     /\ Completions(received[t]) # <<>>)
      => /\ CleanupFinished(i)
         /\ \E j, k \in DOMAIN received[t] :
              /\ j < k /\ k < Len(received[t])
              /\ received[t][j].isError /\ ~received[t][j].isComplete
              /\ k \in CleanupEvents(received[t])
              /\ received[t][Len(received[t])].isComplete

\* C24: a run that has ended has published exactly one event with
\* isComplete=true, whether it succeeded, failed at any step, or failed and
\* its cleanup failed too.
C24_OneCompletionPublished ==
  \A i \in Ids : Ended(i) => Len(Completions(runs[i].published)) = 1
C24_Witness ==
  \E i \in Ids :
    /\ Ended(i) /\ CleanupFailed(i) /\ AppCreated(i)
    /\ Len(Completions(runs[i].published)) = 1

\* C25: when the cleanup command of a run has failed, a transport that was
\* connected for the run before it failed, and stayed, has received the
\* cleanup failure as an isError=true event with isComplete=false; the run
\* has published a single completion event and has failed.
C25_CleanupFailureReported ==
  \A i \in Ids : \A t \in DOMAIN conn :
    (/\ CleanupFailed(i)
     /\ conn[t].state \in {"open", "ended"} /\ conn[t].id = i
     /\ ~conn[t].replaced /\ ~conn[t].afterComplete)
      => /\ \E j \in DOMAIN received[t] :
              /\ received[t][j].isError /\ ~received[t][j].isComplete
              /\ received[t][j].message[1] = "Failed to cleanup app "
         /\ Len(Completions(runs[i].published)) = 1
         /\ Failed(i)

\* C26: once a run has ended, the registry holds no entry for its
\* deployment identifier.
C26_NoEntryAfterRunEnd ==
  \A i \in Ids : Ended(i) => clients[i] = NoClient

\* C27: the disconnect of a transport removes no registration but its own:
\* when transport T1 was replaced by T2 for an identifier and T1 then
\* disconnects, the registry entry of every key that does not hold T1,
\* that of T2 included, stays as it was.
C27_DisconnectRemovesOwnEntryOnly ==
  [][\A t \in DOMAIN conn :
       (conn[t].state # "closed" /\ conn'[t].state = "closed")
         => \A key \in Keys : clients[key] # t => clients'[key] = clients[key]]_vars

\* C28: the external calls of a run are issued in the order identity
\* creation (then the lookup, if any), credential issuance,
\* create-application, one set-secret per key in the order of the keys,
\* descriptor write, deploy, followed only by the cleanup destroy and the
\* temp-file delete; at most one of them is unsettled at any time; and a
\* step in or after which the run has published an error issues no
\* provisioning call, only the destroy and the delete.
C28_SequentialSteps ==
  /\ [](\A i \in Ids :
         LET steps == StepsOf(i)
             prov == SelectSeq(steps, LAMBDA x : x \notin Teardown \cup {"lookup"})
         IN /\ IsPrefix(prov, ProvisioningOrder)
            /\ \A j \in DOMAIN steps : steps[j] = "lookup" => j = 2
            /\ \A j, k \in DOMAIN steps :
                 (j < k /\ steps[j] \in Teardown)
                   => (steps[j] = "destroy" /\ steps[k] = "unlink")
            /\ Len(runs[i].calls) - runs[i].returned \in {0, 1}
            /\ Pending(i) <=> Len(runs[i].calls) - runs[i].returned = 1)
  /\ [][\A i \in Ids :
          ErrorPublished(i)'
            => \A j \in Len(runs[i].calls) + 1 .. Len(runs'[i].calls) :
                 StepOf(runs'[i].calls[j]) \in Teardown]_vars
\* a run ended on its success path by way of the lookup
C28_Witness ==
  \E i \in Ids :
    /\ Ended(i) /\ ~Failed(i)
    /\ Len(runs[i].calls) = Len(ProvisioningOrder) + 2
    /\ StepsOf(i)[2] = "lookup"

\* C29: the set-secret commands a run has issued are, in the order of the
\* configuration keys, one per key of non-empty value (all of them once the
\* loop is left); a command for a later key is issued only in the step in
\* which the previous command exited zero; and for a key of empty value no
\* command is issued and, once the loop is left, exactly one progress event
\* without error was published for it.
C29_SecretsOnePerKey ==
  /\ [](\A i \in Ids :
         LET sets == SecretSets(i)
             secrets == Secrets(runs[i])
             keys == KeysToSet(i)
         IN /\ Len(sets) <= Len(keys)
            /\ \A j \in DOMAIN sets :
                 sets[j].args[5] = secrets[keys[j]][1] \o T("=") \o secrets[keys[j]][2]
            /\ SecretsProcessed(i)
                 => /\ Len(sets) = Len(keys)
                    /\ Len(Skips(i)) = Len(secrets) - Len(keys)
                    /\ \A n \in DOMAIN secrets :
                         secrets[n][2] = <<>>
                           => Len(SkipsOf(i, n)) = 1 /\ ~SkipsOf(i, n)[1].isError)
  /\ [][\A i \in Ids :
          (runs'[i].calls # runs[i].calls /\ runs'[i].cmd.step = "secret"
             /\ runs'[i].secretIdx > 1)
            => /\ runs[i].pc = "await_cmd" /\ runs[i].cmd.step = "secret"
               /\ Publishes(i, LAMBDA e :
                      e.message = T("Command \"") \o runs[i].cmd.commandString
                                    \o T("\" completed successfully."))]_vars
\* a run has left its secrets loop with one command per key
C29_Witness ==
  \E i \in Ids :
    /\ SecretsProcessed(i) /\ Len(SecretSets(i)) = 9
    /\ runs[i].formData.geminiKey = JsStr(KeyK)

\* C30: a run that has ended attempted exactly one delete of its temporary
\* descriptor file if its descriptor write succeeded, and none if it failed
\* before the write or the write itself failed.
C30_DeleteIffWritten ==
  \A i \in Ids :
    Ended(i) => Len(Unlinks(i)) = (IF DescriptorWritten(i) THEN 1 ELSE 0)

\* C31: the step in which the delete of the temporary descriptor file
\* settles, failed or not, publishes no event, writes nothing to any
\* transport and leaves the registry alone; the run ends with the outcome it
\* had: the single completion event it published before, failed or not as
\* before, and no event of the entry point's rejection handler.
C31_UnlinkFailureSilent ==
  [][\A i \in Ids :
       (runs[i].pc = "await_unlink" /\ runs'[i].pc # "await_unlink")
         => /\ NewEvents(i) = <<>>
            /\ received' = received /\ clients' = clients /\ conn' = conn
            /\ Ended(i)'
            /\ runs'[i].failedAt = runs[i].failedAt
            /\ Len(Completions(runs[i].published)) = 1
            /\ Completions(runs'[i].published) = Completions(runs[i].published)
            /\ Completions(runs[i].published)[1].isError <=> Failed(i)]_vars
\* a run ended on its success path, its delete failed, the file is left
C31_Witness ==
  \E i \in Ids :
    /\ Ended(i) /\ ~Failed(i) /\ runs[i].unlinkOutcome = "failed"
    /\ runs[i].tempFlyTomlPath \in fs
    /\ LastPublished(i) = SuccessEvent(runs[i])

\* C32: every launched command has settled exactly once when the run has
\* moved on; and the step in which a child process exits settles its call
\* once: on exit code zero it resolves with the stdout and stderr text
\* accumulated from the progress events of the command and exit code 0,
\* publishes the non-error completion note first and no error event; on
\* another exit code it publishes, first, an isError=true event and rejects
\* with that same message, which embeds the command string, the exit code
\* and the captured stderr text ("None" if none); it never resolves on a
\* non-zero exit.
C32_ExitSettlesOnce ==
  /\ [](\A i \in Ids :
         Len(runs[i].settled)
           = Len(Spawns(i)) - (IF runs[i].pc = "await_cmd" THEN 1 ELSE 0))
  /\ [][\A i \in Ids :
          (/\ runs[i].pc = "await_cmd" /\ runs'[i].settled # runs[i].settled
           /\ runs'[i].settled[Len(runs'[i].settled)].how = "exit")
            => LET s == runs'[i].settled[Len(runs'[i].settled)]
                   cs == runs[i].cmd.commandString
                   out == Accumulated(runs[i].published, "stdout")
                   err == Accumulated(runs[i].published, "stderr")
               IN /\ runs'[i].settled = Append(runs[i].settled, s)
                  /\ s.commandString = cs
                  /\ \/ /\ s.kind = "resolved"
                        /\ s.exitCode = T("0") /\ s.stdout = out /\ s.stderr = err
                        /\ NewEvents(i)[1]
                             = Info(T("Command \"") \o cs \o T("\" completed successfully."))
                        /\ \A j \in DOMAIN NewEvents(i) : ~NewEvents(i)[j].isError
                     \/ /\ s.kind = "rejected"
                        /\ NewEvents(i)[1] = Err(s.message)
                        /\ \E c \in ExitCodes \ {0} :
                             s.message
                               = T("Command \"") \o cs \o T("\" failed with exit code ")
                                   \o NumToString(c) \o T(". Stderr: ")
                                   \o (IF err = <<>> THEN T("None") ELSE err)]_vars
\* a command that wrote to stderr in two data events exited with a non-zero code
C32_Witness ==
  \E i \in Ids :
    /\ runs[i].settled # <<>>
    /\ runs[i].settled[1].kind = "rejected" /\ runs[i].settled[1].how = "exit"
    /\ runs[i].output = << <<"stderr", <<"line", "\n">> >>,
                           <<"stderr", <<"line", "\n", "more", "\n">> >> >>
    /\ LET m == runs[i].settled[1].message
       IN /\ Len(m) > 6
          /\ SubSeq(m, Len(m) - 5, Len(m)) = <<"line", "\n", "line", "\n", "more", "\n">>

\* C33: a command that could not be launched was rejected with a launch
\* error, which carries no exit code and differs from the exit-code error,
\* its call has one settlement, and no exit-code failure event was ever
\* published for it, not by a close event that follows the launch error
\* either.
C33_LaunchFailureReportedOnce ==
  \A i \in Ids :
    /\ Len(runs[i].settled)
         = Len(Spawns(i)) - (IF runs[i].pc = "await_cmd" THEN 1 ELSE 0)
    /\ \A j \in DOMAIN runs[i].settled :
         LET s == runs[i].settled[j]
         IN s.how = "launch"
              => /\ s.kind = "rejected" /\ s.exitCode = <<>>
                 /\ s.message[1] = "Failed to start command \""
                 /\ ~\E k \in DOMAIN runs[i].published :
                       /\ runs[i].published[k].isError
                       /\ IsPrefix(T("Command \"") \o s.commandString
                                     \o T("\" failed with exit code "),
                                   runs[i].published[k].message)

\* C34: the progress events a run has published for the output of its
\* child processes are, in the order received, exactly one event per
\* newline-delimited line written, carrying that line tagged with its
\* stream, with isError=false; and a call that resolved with text on
\* stderr has exit code 0.
C34_OneEventPerLine ==
  \A i \in Ids :
    /\ OutputEvents(i) = LineEvents(runs[i].output)
    /\ \A j \in DOMAIN runs[i].settled :
         runs[i].settled[j].kind = "resolved" => runs[i].settled[j].exitCode = T("0")

\* C35: no event a run has published contains the secret credential of
\* its request or the identity token generated for it.
C35_NoSecretInEvents ==
  \A i \in Ids : \A j \in DOMAIN runs[i].published :
    /\ runs[i].formData.geminiKey.s # <<>>
         => ~Contains(runs[i].published[j].message, runs[i].formData.geminiKey.s)
    /\ runs[i].newUserToken # <<>>
         => ~Contains(runs[i].published[j].message, runs[i].newUserToken)

\* C36: no transport that connected with the identifier of a run has
\* received any of the events the run published before POST /deploy
\* responded (the name-generation events first of all), and if the
\* completion event is among them, no transport of that identifier has
\* received a completion event.
C36_EventsBeforeResponseDropped ==
  \A i \in Ids :
    Started(i)
      => LET prefix == SyncPrefix(i)
         IN /\ prefix # <<>>
            /\ prefix[1] = Info(T("Generating unique application name..."))
            /\ \A t \in DOMAIN conn :
                 (conn[t].state # "idle" /\ conn[t].id = i)
                   => /\ \A j \in DOMAIN received[t] : \A k \in DOMAIN prefix :
                           received[t][j] # prefix[k]
                      /\ Completions(prefix) # <<>> => Completions(received[t]) = <<>>
\* a subscriber connected at once and stayed until the run ended: the run had
\* failed before the response, so it got cleanup events and no completion
C36_Witness ==
  \E i \in Ids : \E t \in DOMAIN conn :
    /\ Ended(i) /\ runs[i].lateClose = {} /\ Completions(SyncPrefix(i)) # <<>>
    /\ conn[t].state = "open" /\ conn[t].id = i
    /\ conn[t].seenAt = Len(SyncPrefix(i))
    /\ Len(received[t]) > 1 /\ Completions(received[t]) = <<>>

\* C37: a run that has published the success completion event has issued no
\* destroy-application command and has not failed, and no run has issued
\* more than one destroy-application command.
C37_NoDestroyOnSuccess ==
  \A i \in Ids :
    /\ Succeeded(i) => Destroys(i) = <<>> /\ ~Failed(i)
    /\ Len(Destroys(i)) <= 1
\* a run ended after its success event, its delete failed, no destroy issued
C37_Witness ==
  \E i \in Ids :
    /\ Ended(i) /\ Succeeded(i) /\ runs[i].unlinkOutcome = "failed"
    /\ Destroys(i) = <<>> /\ Len(Deploys(i)) = 1

\* C38: two runs never write or delete the same temporary path, whether
\* their application names coincide or not, and the path of each contains
\* its deployment identifier; the descriptor a run wrote stays in the
\* filesystem until its own delete removes it, whatever the other run's
\* finalization does.
C38_DescriptorPathsDistinct ==
  \A i \in Ids :
    /\ \A j \in Ids \ {i} : DescriptorPaths(i) \cap DescriptorPaths(j) = {}
    /\ \A p \in DescriptorPaths(i) : Contains(p, runs[i].deploymentId)
    /\ (DescriptorWritten(i) /\ runs[i].unlinkOutcome # "removed")
         => runs[i].tempFlyTomlPath \in fs
\* two runs with the same application name wrote their descriptors; one has
\* ended and removed its own, the other's is still there
C38_Witness ==
  \E i, j \in Ids :
    /\ i # j /\ runs[i].uniqueAppName = runs[j].uniqueAppName
    /\ DescriptorWritten(i) /\ DescriptorWritten(j)
    /\ Ended(i) /\ runs[i].unlinkOutcome = "removed"
    /\ runs[j].pc = "await_cmd" /\ runs[j].tempFlyTomlPath \in fs

\* C39: the application name derived for a request consists of lowercase
\* letters, digits and hyphens only; it is at most 40 such characters (40
\* when the organization name has 40 or more, and as many as the
\* organization name has when that is shorter and every character of it
\* lowercases to one character), then a hyphen, then four digits that
\* denote a number in 1000..9999; it is at most 45 characters long; and a
\* character of the organization name that is a lowercase letter, a digit
\* or a hyphen stands unchanged at its position.
C39_NameShape ==
  \A i \in Ids :
    (Started(i) /\ runs[i].formData.orgName.t = "string")
      => LET name == runs[i].uniqueAppName
             org == runs[i].formData.orgName.s
             n == Len(name) - 5
             expands == \E j \in DOMAIN org : org[j] = "U+0130"
         IN /\ \A j \in DOMAIN name : name[j] \in NameChars
            /\ Len(name) <= 45
            /\ 0 <= n /\ n <= 40
            /\ Len(org) >= 40 => n = 40
            /\ Len(org) < 40 => n >= Len(org)
            /\ ~expands => n = (IF Len(org) < 40 THEN Len(org) ELSE 40)
            /\ name[n + 1] = "-"
            /\ name[n + 2] \in Range(Digit) \ {"0"}
            /\ \A j \in n + 3 .. n + 5 : name[j] \in Range(Digit)
            /\ ~expands => \A j \in 1 .. n : org[j] \in NameChars => name[j] = org[j]
\* an organization name of 41 characters that ends in U+0130
C39_Witness ==
  \E i \in Ids :
    /\ Started(i) /\ Len(runs[i].formData.orgName.s) = 41
    /\ runs[i].formData.orgName.s[41] = "U+0130"
    /\ Len(runs[i].uniqueAppName) = 45
    /\ SubSeq(runs[i].uniqueAppName, 41, 45) = <<"-", "9", "9", "9", "9">>

\* C40: every credential-issuance request of a run was made for a
\* non-empty identity id, the one a successful create or a successful lookup
\* reported; a create-application command was issued only after a
\* non-empty token was obtained; and a run whose create, lookup or token
\* response was OK but carried no id or no token has failed without going
\* on to the next step.
C40_IdAndTokenPresent ==
  \A i \in Ids :
    /\ \A j \in DOMAIN TokenCalls(i) :
         /\ runs[i].newUserId # <<>>
         /\ TokenCalls(i)[j].what
              = T("POST https://api.humanitec.io/users/") \o runs[i].newUserId
                  \o T("/tokens")
         /\ \/ Said(i, T("Successfully created Humanitec service user. ID: ")
                        \o runs[i].newUserId)
            \/ Said(i, T("Found existing service user ID: ") \o runs[i].newUserId)
    /\ Creates(i) # <<>>
         => /\ runs[i].newUserToken # <<>>
            /\ Said(i, T("Successfully generated Humanitec API token."))
    /\ (\/ SetupFailedWith(i, "Failed to parse service user ID from Humanitec response.")
        \/ SetupFailedWith(i, "Failed to find ID for existing service user '"))
         => Failed(i) /\ TokenCalls(i) = <<>> /\ Creates(i) = <<>>
    /\ SetupFailedWith(i, "Failed to parse generated token from Humanitec response.")
         => Failed(i) /\ Creates(i) = <<>> /\ runs[i].newUserToken = <<>>
\* the lookup found the identity, the token response was OK without a token
C40_Witness ==
  \E i \in Ids :
    /\ Ended(i)
    /\ SetupFailedWith(i, "Failed to parse generated token from Humanitec response.")
    /\ runs[i].newUserId = ExistingUserId /\ Len(TokenCalls(i)) = 1
    /\ Creates(i) = <<>>

====
